---------------------------- MODULE Spec2Model ----------------------------
(***************************************************************************)
(* A model of src/modules/chatgpt_integration.py: the ChatGPTIntegration   *)
(* client (credential loading, the pacing limiter, the retrying request    *)
(* executor and the three prompt operations), driven by one or two caller  *)
(* threads against a nondeterministic endpoint and a free-running clock.   *)
(*                                                                         *)
(* Python values are tagged records [ty, v]: a str is a sequence of text   *)
(* fragments (single characters where trimming matters), a dict is a       *)
(* function from keys to values, a list is a sequence of values.           *)
(* Locals of a call are held in the caller's frame while they are live.    *)
(***************************************************************************)
EXTENDS Integers, Sequences, FiniteSets, TLC

VARIABLES
    clock,              \* time.time(), in whole time units
    drift,              \* units of time that have passed while nobody slept
    file,               \* apikey.txt: missing, unreadable, or its text
    client,             \* "none" before construction, then "ok" or "failed"
    api_key,            \* self.api_key
    last_request_time,  \* self.last_request_time
    sent,               \* the last two dispatches, oldest first
    calls,              \* calls each thread may still start
    percentages,        \* the enhancement_percentage values callers pass
    ceilings,           \* the max_retries values direct callers of the executor pass
    endpoint,           \* the outcomes the endpoint produces
    faults,             \* failed attempts the endpoint may still produce
    frame               \* each thread's position and locals

vars == <<clock, drift, file, client, api_key, last_request_time,
          sent, calls, percentages, ceilings, endpoint, faults, frame>>

----------------------------------------------------------------------------
(* Bounds of the model *)

\* Calls the single caller makes
MaxCalls == 2
\* Calls each of two concurrent callers makes
MaxConcCalls == 1
\* Calls the single caller makes when every percentage is tried
MaxInputCalls == 1
\* Attempts the endpoint fails in one behaviour: with one caller, with two
MaxFaults == 3
MaxConcFaults == 1
\* Units of time that pass in one behaviour while no thread sleeps
MaxDrift == 1
\* time.time() when the client is constructed; self.last_request_time
\* starts at 0, far in its past
StartClock == 3
\* The largest max_retries a direct caller of the executor passes, and the
\* attempts the endpoint fails for such a caller
MaxCeiling == 6
MaxCeilingFaults == 6

(* Program constants *)

min_request_interval == 2
default_max_retries == 3
backoff_cap == 60
backoff_base == 5

Threads == {1, 2}

----------------------------------------------------------------------------
(* Python values *)

PyNone == [ty |-> "none", v |-> <<>>]
PyStr(s) == [ty |-> "str", v |-> s]
PyDict(d) == [ty |-> "dict", v |-> d]
PyList(l) == [ty |-> "list", v |-> l]

IsStr(x) == x.ty = "str"

Whitespace == {" ", "\n"}

RECURSIVE LStrip(_)
LStrip(s) ==
    IF s = <<>> THEN <<>>
    ELSE IF Head(s) \in Whitespace THEN LStrip(Tail(s)) ELSE s

RECURSIVE RStrip(_)
RStrip(s) ==
    IF s = <<>> THEN <<>>
    ELSE IF s[Len(s)] \in Whitespace THEN RStrip(SubSeq(s, 1, Len(s) - 1)) ELSE s

\* str.strip()
Strip(s) == RStrip(LStrip(s))

RECURSIVE Pow2(_)
Pow2(n) == IF n <= 0 THEN 1 ELSE 2 * Pow2(n - 1)

Min(a, b) == IF a < b THEN a ELSE b


----------------------------------------------------------------------------
(* Credential loading: __init__ and _load_api_key *)

KeyTexts == { <<>>, <<" ", "\n">>, <<" ", "k", "\n">> }

Files ==
    { [kind |-> "missing", text |-> <<>>], [kind |-> "unreadable", text |-> <<>>] }
    \cup { [kind |-> "text", text |-> s] : s \in KeyTexts }

\* Without the `if not api_key` check
LoadApiKeyUnchecked(f) ==
    IF f.kind = "missing" THEN [raised |-> "FileNotFoundError", v |-> <<>>]
    ELSE IF f.kind = "unreadable" THEN [raised |-> "Exception", v |-> <<>>]
    ELSE [raised |-> "", v |-> Strip(f.text)]

\* _load_api_key: the stripped text, or the exception that leaves the method.
\* The ValueError for an empty key is raised inside the try, caught by
\* `except Exception` and raised again as a plain Exception.
LoadApiKey(f) ==
    IF f.kind = "missing" THEN [raised |-> "FileNotFoundError", v |-> <<>>]
    ELSE IF f.kind = "unreadable" THEN [raised |-> "Exception", v |-> <<>>]
    ELSE LET k == Strip(f.text)
         IN  IF k = <<>> THEN [raised |-> "Exception", v |-> <<>>]
             ELSE [raised |-> "", v |-> k]

----------------------------------------------------------------------------
(* The endpoint: what requests.post, raise_for_status and response.json()  *)
(* can produce for one attempt.                                            *)

Contents == { <<" ", "X", " ", "Y", "\n">> }

ChoiceBody(c) ==
    PyDict([choices |-> PyList(<< PyDict([message |-> PyDict([content |-> c])]) >>)])

Bodies ==
    { ChoiceBody(PyStr(c)) : c \in Contents }
    \cup { ChoiceBody(PyNone),
           PyDict([choices |-> PyList(<<>>)]),
           PyDict([choices |-> PyList(<< PyDict([index |-> PyNone]) >>)]),
           PyDict([object |-> PyStr(<<"chat.completion">>)]),
           PyDict([error |-> PyStr(<<"quota">>)]),
           PyDict([error |-> PyDict([message |-> PyStr(<<"quota">>)])]) }

\* Exceptions that derive from requests.exceptions.RequestException.  A body
\* that is not JSON raises requests' JSONDecodeError (a RequestException) or
\* a plain ValueError, depending on the installed requests.
RequestExceptions == { "ConnectionError", "Timeout", "HTTPError", "JSONDecodeError" }

\* One attempt's outcome: requests.post raised, or a response with its status
\* and what response.json() does
Raised(e) == [raised |-> e, status_code |-> 0, json_raised |-> "", body |-> PyNone]
Response(status_code, json_raised, body) ==
    [raised |-> "", status_code |-> status_code, json_raised |-> json_raised,
     body |-> body]

Outcomes ==
    { Raised(e) : e \in { "ConnectionError", "Timeout", "TypeError" } }
    \cup { Response(s, "", PyNone) : s \in { 429, 500 } }
    \cup { Response(200, e, PyNone) : e \in { "JSONDecodeError", "ValueError" } }
    \cup { Response(200, "", b) : b \in Bodies }

\* A reply with content, a 429 and a connection failure
PlainOutcomes ==
    { Raised("ConnectionError"), Response(429, "", PyNone) }
    \cup { Response(200, "", ChoiceBody(PyStr(c))) : c \in Contents }

\* An attempt that does not end with a parsed 2xx body
IsFault(o) == o.raised # "" \/ o.status_code # 200 \/ o.json_raised # ""

\* What kind of outcome an attempt had, for the frame's log of replies
ReplyKind(o) ==
    IF o.raised = "" /\ o.status_code = 429 THEN "429"
    ELSE IF IsFault(o) THEN "failure"
    ELSE "body"

\* Where an attempt ended, without the body it may have delivered
Ending(o) == [o EXCEPT !.body = PyNone]

\* No attempt has ended yet
NoEnding == Response(0, "", PyNone)

\* response.raise_for_status()
RaisesForStatus(status_code) == status_code >= 400 /\ status_code < 600

----------------------------------------------------------------------------
(* Frames: a caller's position (pc) and the locals of the operation and   *)
(* of the methods it calls.  stamps, posts, replies and sleeps record what *)
(* the call has done so far; ending is how the attempt before the current  *)
(* backoff or return ended; stamp, paced and stale describe the limiter    *)
(* call that precedes the next dispatch.                                   *)

Ops == { "enhance_prompt", "improve_image_prompt", "generate_alternative_prompt" }

Prompts == { <<>>, <<" ", "\n">>, <<" ", "a", " ">> }

\* enhancement_percentage: its default, and the slider's whole range
DefaultPercentage == 50
Percentages == 0 .. 100

\* max_retries: what a direct caller of _make_api_request may pass
Ceilings == -1 .. MaxCeiling

IdleFrame ==
    [ pc |-> "idle", op |-> "", original_prompt |-> <<>>,
      enhancement_percentage |-> 0, enhancement_level |-> "",
      max_retries |-> 0, attempt |-> 0, current_time |-> 0, wake |-> 0,
      ending |-> NoEnding,
      paced |-> 0, stamp |-> 0, stale |-> FALSE,
      result |-> PyNone, ret |-> PyNone,
      stamps |-> 0, posts |-> 0, replies |-> <<>>, sleeps |-> <<>> ]

Sleeping(t) == frame[t].pc \in { "rl_sleep", "backoff" } /\ frame[t].wake > clock

\* The last two entries of a log.
Last2(l) == IF Len(l) > 2 THEN SubSeq(l, Len(l) - 1, Len(l)) ELSE l

----------------------------------------------------------------------------
(* The prompt operations' local computations *)

\* `not original_prompt`, without the strip
IsBlankNoStrip(prompt) == prompt = <<>>

\* `not original_prompt.strip()`
IsBlank(prompt) == Strip(prompt) = <<>>

Guidance(op) ==
    CASE op = "enhance_prompt" -> <<"Please enter a prompt to enhance.">>
      [] op = "improve_image_prompt" -> <<"Please provide the original prompt to improve.">>
      [] op = "generate_alternative_prompt" -> <<"Please provide a prompt to create variations.">>

\* Strict comparisons in the if/elif chain
EnhanceLevelStrict(pct) ==
    IF pct < 30 THEN "subtle"
    ELSE IF pct < 60 THEN "moderate"
    ELSE IF pct < 80 THEN "strong"
    ELSE "maximum"

\* enhance_prompt's if/elif chain on enhancement_percentage
EnhanceLevel(pct) ==
    IF pct <= 30 THEN "subtle"
    ELSE IF pct <= 60 THEN "moderate"
    ELSE IF pct <= 80 THEN "strong"
    ELSE "maximum"

\* improve_image_prompt's if/elif chain on enhancement_percentage
ImproveLevel(pct) ==
    IF pct <= 30 THEN "subtle"
    ELSE IF pct <= 60 THEN "moderate"
    ELSE IF pct <= 80 THEN "strong"
    ELSE "maximum"

\* x[k] for a dict x, x[i] for a list x (i >= 0): the value, or the exception
\* with its str()
GetItem(x, k) ==
    IF x.ty = "dict"
    THEN IF k \in DOMAIN x.v THEN [exc |-> "", v |-> x.v[k]]
         ELSE [exc |-> "KeyError", v |-> PyStr(<<"'", k, "'">>)]
    ELSE [exc |-> "TypeError", v |-> PyStr(<<"object is not subscriptable">>)]

GetIndex(x, i) ==
    IF x.ty = "list"
    THEN IF i + 1 \in DOMAIN x.v THEN [exc |-> "", v |-> x.v[i + 1]]
         ELSE [exc |-> "IndexError", v |-> PyStr(<<"list index out of range">>)]
    ELSE IF x.ty = "dict"
    THEN [exc |-> "KeyError", v |-> PyStr(<<"0">>)]
    ELSE [exc |-> "TypeError", v |-> PyStr(<<"object is not subscriptable">>)]

\* x.lstrip()
CallLStrip(x) ==
    IF x.ty = "str" THEN [exc |-> "", v |-> PyStr(LStrip(x.v))]
    ELSE [exc |-> "AttributeError", v |-> PyStr(<<"object has no attribute 'strip'">>)]

\* x.strip()
CallStrip(x) ==
    IF x.ty = "str" THEN [exc |-> "", v |-> PyStr(Strip(x.v))]
    ELSE [exc |-> "AttributeError", v |-> PyStr(<<"object has no attribute 'strip'">>)]

\* result["choices"][0]["message"]["content"].strip()
ExtractContent(result) ==
    LET r1 == GetItem(result, "choices")
    IN  IF r1.exc # "" THEN r1
        ELSE LET r2 == GetIndex(r1.v, 0)
             IN  IF r2.exc # "" THEN r2
                 ELSE LET r3 == GetItem(r2.v, "message")
                      IN  IF r3.exc # "" THEN r3
                          ELSE LET r4 == GetItem(r3.v, "content")
                               IN  IF r4.exc # "" THEN r4 ELSE CallStrip(r4.v)

\* `"error" in result` never true
HasErrorNever(result) == FALSE

\* `"error" in result`
HasError(result) == "error" \in DOMAIN result.v

\* Without the `except KeyError` clause
OpReturnNoKeyError(result) ==
    IF HasError(result) THEN result.v["error"]
    ELSE LET r == ExtractContent(result)
         IN  IF r.exc = "" THEN r.v
             ELSE PyStr(<<"Unexpected error: ">> \o r.v.v)

\* What a prompt operation returns for the executor's result: the lines from
\* `if "error" in result` to the end of the try statement.
OpReturn(result) ==
    IF HasError(result) THEN result.v["error"]
    ELSE LET r == ExtractContent(result)
         IN  IF r.exc = "" THEN r.v
             ELSE IF r.exc = "KeyError"
             THEN PyStr(<<"Error parsing ChatGPT response: ">> \o r.v.v)
             ELSE PyStr(<<"Unexpected error: ">> \o r.v.v)

----------------------------------------------------------------------------
(* The request executor's local computations *)

\* A backoff without the cap
WaitTimeUncapped(attempt) == Pow2(attempt) * backoff_base

\* A backoff that grows by addition instead of doubling
WaitTimeLinear(attempt) == Min(backoff_cap, (attempt + 1) * backoff_base)

\* min(60, (2 ** attempt) * 5)
WaitTime(attempt) == Min(backoff_cap, Pow2(attempt) * backoff_base)

\* A delay counted from attempt 1
RetryDelayFromOne(attempt) == Pow2(attempt + 1)

\* 2 ** attempt
RetryDelay(attempt) == Pow2(attempt)

\* attempt < max_retries
AttemptsRemainOffByOne(attempt, max_retries) == attempt < max_retries

\* attempt < max_retries - 1
AttemptsRemain(attempt, max_retries) == attempt < max_retries - 1

ErrorResult(msg) == PyDict([error |-> PyStr(msg)])

RateLimitedResult(wait_time) ==
    ErrorResult(<<"Rate limited. Please wait ", ToString(wait_time),
                  " seconds and try again.">>)

ConnectionErrorResult(e) == ErrorResult(<<"Error connecting to ChatGPT API: ", e>>)

UnexpectedErrorResult(e) == ErrorResult(<<"Unexpected error: ", e>>)

MaxRetriesResult == ErrorResult(<<"Max retries exceeded">>)

\* The comparison the wrong way round
TooSoonInverted(time_since_last) == time_since_last > min_request_interval

\* `time_since_last < self.min_request_interval`
TooSoon(time_since_last) == time_since_last < min_request_interval

\* `self.min_request_interval - time_since_last`
SleepTime(time_since_last) == min_request_interval - time_since_last

----------------------------------------------------------------------------
(* Construction *)

InitCommon ==
    /\ clock = StartClock
    /\ drift = 0
    /\ file \in Files
    /\ client = "none"
    /\ api_key = <<>>
    /\ last_request_time = 0
    /\ sent = <<>>
    /\ frame = [t \in Threads |-> IdleFrame]

\* One caller thread, which leaves enhancement_percentage at its default.
Init ==
    /\ InitCommon
    /\ calls = [t \in Threads |-> IF t = 1 THEN MaxCalls ELSE 0]
    /\ percentages = { DefaultPercentage }
    /\ ceilings = { default_max_retries }
    /\ endpoint = Outcomes
    /\ faults = MaxFaults

\* One caller thread, one call, any enhancement_percentage of the range.
InitInputs ==
    /\ InitCommon
    /\ calls = [t \in Threads |-> IF t = 1 THEN MaxInputCalls ELSE 0]
    /\ percentages = Percentages
    /\ ceilings = { default_max_retries }
    /\ endpoint = Outcomes
    /\ faults = MaxFaults

\* One caller thread, one call; a direct call of the executor passes any
\* max_retries from -1 to MaxCeiling.
InitRetries ==
    /\ InitCommon
    /\ calls = [t \in Threads |-> IF t = 1 THEN MaxInputCalls ELSE 0]
    /\ percentages = { DefaultPercentage }
    /\ ceilings = Ceilings
    /\ endpoint = Outcomes
    /\ faults = MaxCeilingFaults

\* One caller thread, one call with max_retries = 3: of an operation or of
\* the executor directly.
InitFair ==
    /\ InitCommon
    /\ calls = [t \in Threads |-> IF t = 1 THEN MaxInputCalls ELSE 0]
    /\ percentages = { DefaultPercentage }
    /\ ceilings = { default_max_retries }
    /\ endpoint = Outcomes
    /\ faults = MaxFaults

\* Two caller threads sharing the global instance.
InitConc ==
    /\ InitCommon
    /\ calls = [t \in Threads |-> MaxConcCalls]
    /\ percentages = { DefaultPercentage }
    /\ ceilings = { default_max_retries }
    /\ endpoint = PlainOutcomes
    /\ faults = MaxConcFaults

\* chatgpt = ChatGPTIntegration()
Construct ==
    /\ client = "none"
    /\ LET r == LoadApiKey(file)
       IN  IF r.raised = ""
           THEN /\ client' = "ok"
                /\ api_key' = r.v
                /\ last_request_time' = 0
           ELSE /\ client' = "failed"
                /\ UNCHANGED <<api_key, last_request_time>>
    /\ UNCHANGED <<clock, drift, file, sent, calls, percentages, ceilings, endpoint, faults, frame>>

\* Time passes, from the client's construction on.  While a thread sleeps
\* towards a later wake-up time the clock runs freely; otherwise at most
\* MaxDrift units pass in total.
Tick ==
    /\ client = "ok"
    /\ \/ \E t \in Threads : Sleeping(t)
       \/ drift < MaxDrift
    /\ clock' = clock + 1
    /\ drift' = IF \E t \in Threads : Sleeping(t) THEN drift ELSE drift + 1
    /\ UNCHANGED <<file, client, api_key, last_request_time, sent, calls, percentages, ceilings,
                   endpoint, faults, frame>>

----------------------------------------------------------------------------
(* _make_api_request's and the operations' returns *)

\* The executor returns result: to the operation, which computes its return
\* value from it, or to a direct caller.
Returning(f, result) ==
    IF f.op \in Ops
    THEN [f EXCEPT !.pc = "returned", !.result = result, !.ret = OpReturn(result)]
    ELSE [f EXCEPT !.pc = "executor_returned", !.result = result, !.ret = result]

\* A loop that calls the limiter before its first attempt only
LoopNextLimiterOnce(f, attempt) ==
    IF attempt < f.max_retries
    THEN [f EXCEPT !.attempt = attempt, !.pc = IF attempt = 0 THEN "rl_now" ELSE "post"]
    ELSE Returning([f EXCEPT !.attempt = attempt], MaxRetriesResult)

\* The head of `for attempt in range(max_retries)`: the next attempt, or the
\* statement after the loop.
LoopNext(f, attempt) ==
    IF attempt < f.max_retries
    THEN [f EXCEPT !.attempt = attempt, !.pc = "rl_now"]
    ELSE Returning([f EXCEPT !.attempt = attempt], MaxRetriesResult)

----------------------------------------------------------------------------
(* The prompt operations, up to the request *)

\* Without the blank check
EnteredUnchecked(op, prompt, pct, level) ==
    [IdleFrame EXCEPT !.pc = "build", !.op = op, !.original_prompt = prompt,
                      !.enhancement_percentage = pct,
                      !.enhancement_level = level]

\* The frame after the blank check and the band selection.
Entered(op, prompt, pct, level) ==
    IF IsBlank(prompt)
    THEN [IdleFrame EXCEPT !.pc = "returned", !.op = op, !.original_prompt = prompt,
                           !.ret = PyStr(Guidance(op))]
    ELSE [IdleFrame EXCEPT !.pc = "build", !.op = op, !.original_prompt = prompt,
                           !.enhancement_percentage = pct,
                           !.enhancement_level = level]

CanCall(t) ==
    /\ client = "ok"
    /\ frame[t].pc = "idle"
    /\ calls[t] > 0

StartCall(t, f) ==
    /\ calls' = [calls EXCEPT ![t] = @ - 1]
    /\ frame' = [frame EXCEPT ![t] = f]
    /\ UNCHANGED <<clock, drift, file, client, api_key, last_request_time, sent,
                   percentages, ceilings, endpoint, faults>>

EnhancePrompt(t) ==
    /\ CanCall(t)
    /\ \E prompt \in Prompts, pct \in percentages :
          StartCall(t, Entered("enhance_prompt", prompt, pct, EnhanceLevel(pct)))

ImproveImagePrompt(t) ==
    /\ CanCall(t)
    /\ \E prompt \in Prompts, pct \in percentages :
          StartCall(t, Entered("improve_image_prompt", prompt, pct, ImproveLevel(pct)))

GenerateAlternativePrompt(t) ==
    /\ CanCall(t)
    /\ \E prompt \in Prompts :
          StartCall(t, Entered("generate_alternative_prompt", prompt, 0, ""))

\* The prompts and the payload are built and _make_api_request(payload) is
\* entered, max_retries at its default.  The percentage and the band are not
\* read again.
BuildPayload(t) ==
    /\ frame[t].pc = "build"
    /\ frame' = [frame EXCEPT ![t] =
                    LoopNext([@ EXCEPT !.enhancement_percentage = 0,
                                       !.enhancement_level = "",
                                       !.max_retries = default_max_retries], 0)]
    /\ UNCHANGED <<clock, drift, file, client, api_key, last_request_time, sent, calls,
                   percentages, ceilings, endpoint, faults>>

----------------------------------------------------------------------------
(* _rate_limit_protection *)

\* current_time = time.time()
RlNow(t) ==
    /\ frame[t].pc = "rl_now"
    /\ frame' = [frame EXCEPT ![t].current_time = clock, ![t].pc = "rl_check"]
    /\ UNCHANGED <<clock, drift, file, client, api_key, last_request_time, sent, calls,
                   percentages, ceilings, endpoint, faults>>

\* time_since_last is computed from self.last_request_time, and
\* time.sleep(sleep_time) is called if it is too small
RlCheck(t) ==
    /\ frame[t].pc = "rl_check"
    /\ LET time_since_last == frame[t].current_time - last_request_time
       IN  frame' = [frame EXCEPT ![t] =
              IF TooSoon(time_since_last)
              THEN [@ EXCEPT !.pc = "rl_sleep", !.current_time = 0,
                             !.stale = FALSE,
                             !.paced = SleepTime(time_since_last),
                             !.wake = clock + SleepTime(time_since_last),
                             !.sleeps = Append(@, [why |-> "pacing",
                                                   d |-> SleepTime(time_since_last)])]
              ELSE [@ EXCEPT !.pc = "rl_stamp", !.current_time = 0,
                             !.stale = FALSE, !.paced = 0]]
    /\ UNCHANGED <<clock, drift, file, client, api_key, last_request_time, sent, calls,
                   percentages, ceilings, endpoint, faults>>

\* time.sleep returns
RlWake(t) ==
    /\ frame[t].pc = "rl_sleep"
    /\ clock >= frame[t].wake
    /\ frame' = [frame EXCEPT ![t].pc = "rl_stamp", ![t].wake = 0]
    /\ UNCHANGED <<clock, drift, file, client, api_key, last_request_time, sent, calls,
                   percentages, ceilings, endpoint, faults>>

\* A thread that has read self.last_request_time and not yet sent its request
BetweenReadAndPost(f) == f.pc \in { "rl_sleep", "rl_stamp", "post" }

\* self.last_request_time = time.time().  What the other threads have read of
\* it is stale from now on.
RlStamp(t) ==
    /\ frame[t].pc = "rl_stamp"
    /\ last_request_time' = clock
    /\ frame' = [u \in Threads |->
                    IF u = t
                    THEN [frame[u] EXCEPT !.pc = "post", !.stamp = clock,
                                          !.stamps = @ + 1]
                    ELSE IF BetweenReadAndPost(frame[u])
                    THEN [frame[u] EXCEPT !.stale = TRUE]
                    ELSE frame[u]]
    /\ UNCHANGED <<clock, drift, file, client, api_key, sent, calls, percentages, ceilings,
                   endpoint, faults>>

----------------------------------------------------------------------------
(* _make_api_request *)

\* chatgpt._make_api_request(payload, max_retries), called directly
MakeApiRequest(t) ==
    /\ CanCall(t)
    /\ \E max_retries \in ceilings :
          StartCall(t, LoopNext([IdleFrame EXCEPT !.op = "_make_api_request",
                                                  !.max_retries = max_retries], 0))

\* requests.post(...) sends the request
Post(t) ==
    /\ frame[t].pc = "post"
    /\ sent' = Last2(Append(sent, [by |-> t, at |-> clock,
                                   stamp |-> frame[t].stamp,
                                   stale |-> frame[t].stale,
                                   paced |-> frame[t].paced]))
    /\ frame' = [frame EXCEPT ![t].pc = "await", ![t].posts = @ + 1,
                              ![t].stamp = 0, ![t].stale = FALSE, ![t].paced = 0]
    /\ UNCHANGED <<clock, drift, file, client, api_key, last_request_time, calls,
                   percentages, ceilings, endpoint, faults>>

\* time.sleep(d) before the next attempt
BackoffSleep(f, why, d) ==
    [f EXCEPT !.pc = "backoff", !.wake = clock + d,
              !.sleeps = Append(@, [why |-> why, d |-> d])]

\* Only the first except clause, catching every exception
OnExceptionRetryAll(f, e) ==
    IF AttemptsRemain(f.attempt, f.max_retries)
    THEN BackoffSleep(f, "retry", RetryDelay(f.attempt))
    ELSE Returning(f, ConnectionErrorResult(e))

\* The two except clauses, for an exception e raised inside the try
OnException(f, e) ==
    IF e \in RequestExceptions
    THEN IF AttemptsRemain(f.attempt, f.max_retries)
         THEN BackoffSleep(f, "retry", RetryDelay(f.attempt))
         ELSE Returning(f, ConnectionErrorResult(e))
    ELSE Returning(f, UnexpectedErrorResult(e))

\* 429 replies counted by a counter of their own
OnOutcomeOwnCounter(f, o) ==
    LET seen == Len(SelectSeq(f.replies, LAMBDA k : k = "429")) - 1
    IN  IF o.raised # "" THEN OnException(f, o.raised)
        ELSE IF o.status_code = 429
        THEN IF AttemptsRemain(f.attempt, f.max_retries)
             THEN BackoffSleep(f, "429", WaitTime(seen))
             ELSE Returning(f, RateLimitedResult(WaitTime(seen)))
        ELSE IF RaisesForStatus(o.status_code) THEN OnException(f, "HTTPError")
        ELSE IF o.json_raised # "" THEN OnException(f, o.json_raised)
        ELSE Returning(f, o.body)

\* The attempt's outcome o is handled
OnOutcome(f, o) ==
    IF o.raised # "" THEN OnException(f, o.raised)
    ELSE IF o.status_code = 429
    THEN IF AttemptsRemain(f.attempt, f.max_retries)
         THEN BackoffSleep(f, "429", WaitTime(f.attempt))
         ELSE Returning(f, RateLimitedResult(WaitTime(f.attempt)))
    ELSE IF RaisesForStatus(o.status_code) THEN OnException(f, "HTTPError")
    ELSE IF o.json_raised # "" THEN OnException(f, o.json_raised)
    ELSE Returning(f, o.body)

\* requests.post returns or raises, and the attempt ends: in a backoff sleep
\* or in the operation's return
Receive(t) ==
    /\ frame[t].pc = "await"
    /\ \E o \in endpoint :
          /\ IsFault(o) => faults > 0
          /\ faults' = IF IsFault(o) THEN faults - 1 ELSE faults
          /\ frame' = [frame EXCEPT ![t] =
                          OnOutcome([@ EXCEPT !.replies = Append(@, ReplyKind(o)),
                                              !.ending = Ending(o)], o)]
    /\ UNCHANGED <<clock, drift, file, client, api_key, last_request_time, sent, calls,
                   percentages, ceilings, endpoint>>

\* `continue` that starts the same attempt again
RetryWithoutAdvance(t) ==
    /\ frame[t].pc = "backoff"
    /\ clock >= frame[t].wake
    /\ frame' = [frame EXCEPT ![t] =
                    LoopNext([@ EXCEPT !.wake = 0, !.ending = NoEnding], @.attempt)]
    /\ UNCHANGED <<clock, drift, file, client, api_key, last_request_time, sent, calls,
                   percentages, ceilings, endpoint, faults>>

\* time.sleep returns; `continue`
Retry(t) ==
    /\ frame[t].pc = "backoff"
    /\ clock >= frame[t].wake
    /\ frame' = [frame EXCEPT ![t] =
                    LoopNext([@ EXCEPT !.wake = 0, !.ending = NoEnding], @.attempt + 1)]
    /\ UNCHANGED <<clock, drift, file, client, api_key, last_request_time, sent, calls,
                   percentages, ceilings, endpoint, faults>>

\* The caller takes the return value
Finish(t) ==
    /\ frame[t].pc \in { "returned", "executor_returned" }
    /\ frame' = [frame EXCEPT ![t] = IdleFrame]
    /\ UNCHANGED <<clock, drift, file, client, api_key, last_request_time, sent, calls,
                   percentages, ceilings, endpoint, faults>>

----------------------------------------------------------------------------

Next ==
    \/ Construct
    \/ Tick
    \/ \E t \in Threads :
          \/ EnhancePrompt(t)
          \/ ImproveImagePrompt(t)
          \/ GenerateAlternativePrompt(t)
          \/ BuildPayload(t)
          \/ MakeApiRequest(t)
          \/ RlNow(t)
          \/ RlCheck(t)
          \/ RlWake(t)
          \/ RlStamp(t)
          \/ Post(t)
          \/ Receive(t)
          \/ Retry(t)
          \/ Finish(t)

\* One caller thread
Spec == Init /\ [][Next]_vars

\* One caller thread and every enhancement_percentage
SpecInputs == InitInputs /\ [][Next]_vars

\* One caller thread and every max_retries from -1 to MaxCeiling
SpecRetries == InitRetries /\ [][Next]_vars

\* Two caller threads
SpecConc == InitConc /\ [][Next]_vars

\* What a thread does once it is inside a call: none of these steps waits
\* for anything but the time.sleep it is in and the reply to its request,
\* which arrives or fails within the request's timeout.
Step(t) ==
    \/ BuildPayload(t)
    \/ RlNow(t)
    \/ RlCheck(t)
    \/ RlWake(t)
    \/ RlStamp(t)
    \/ Post(t)
    \/ Receive(t)
    \/ Retry(t)

\* One caller thread; time passes and a thread inside a call keeps running
SpecFair ==
    /\ InitFair /\ [][Next]_vars
    /\ WF_vars(Tick)
    /\ \A t \in Threads : WF_vars(Step(t))

----------------------------------------------------------------------------
(* Properties *)

Returned(t) == frame[t].pc = "returned"

\* The sleeps of a call that are backoffs between attempts, not pacing
Backoffs(f) == SelectSeq(f.sleeps, LAMBDA e : e.why # "pacing")

\* Empty or whitespace-only text
OnlyWhitespace(text) == \A i \in DOMAIN text : text[i] \in { " ", "\n" }

\* C1: with one caller thread, of any two consecutive dispatches the second
\* is sent, and its timestamp recorded, at least min_request_interval after
\* the timestamp recorded for the first.
C1_MinSpacing ==
    Len(sent) = 2 =>
        /\ sent[2].at >= sent[1].stamp + 2
        /\ sent[2].stamp >= sent[1].stamp + 2

\* A call's first dispatch, right after the previous call's, held back by
\* the limiter until exactly the minimum interval had passed
C1_Witness ==
    /\ Len(sent) = 2
    /\ frame[1].pc = "await" /\ frame[1].posts = 1
    /\ sent[2].paced > 0
    /\ sent[2].at = sent[1].stamp + 2

ThreeTimes429(f) == f.pc = "returned" /\ f.replies = <<"429", "429", "429">>

\* C2 as stated: after three consecutive 429 replies the operation has made
\* exactly 3 attempts, has slept three backoffs (5, 10 and one of at most
\* 60) and returns a string that names the wait.
C2_ThreeBackoffSleeps ==
    \A t \in Threads : ThreeTimes429(frame[t]) =>
        LET b == Backoffs(frame[t])
        IN  /\ frame[t].posts = 3
            /\ Len(b) = 3
            /\ b[1].d = 5 /\ b[2].d = 10 /\ b[3].d <= 60
            /\ IsStr(frame[t].ret)

\* C2, amended: after three consecutive 429 replies the operation has made
\* exactly 3 attempts, has slept exactly the two backoffs 5 and 10 between
\* them, and returns the string that names the third wait, 20, unslept.
C2_TwoBackoffSleeps ==
    \A t \in Threads : ThreeTimes429(frame[t]) =>
        /\ frame[t].posts = 3
        /\ Backoffs(frame[t]) = << [why |-> "429", d |-> 5], [why |-> "429", d |-> 10] >>
        /\ IsStr(frame[t].ret)
        /\ frame[t].ret.v = <<"Rate limited. Please wait ", "20",
                              " seconds and try again.">>

C2_Witness == \E t \in Threads : ThreeTimes429(frame[t])

\* C3: a call with an empty or whitespace-only prompt returns the
\* operation's guidance string and has sent nothing and stamped nothing.
C3_BlankPrompt ==
    \A t \in Threads :
        Returned(t) /\ OnlyWhitespace(frame[t].original_prompt) =>
            /\ IsStr(frame[t].ret)
            /\ frame[t].ret.v =
                  ( CASE frame[t].op = "enhance_prompt" ->
                             <<"Please enter a prompt to enhance.">>
                      [] frame[t].op = "improve_image_prompt" ->
                             <<"Please provide the original prompt to improve.">>
                      [] frame[t].op = "generate_alternative_prompt" ->
                             <<"Please provide a prompt to create variations.">> )
            /\ frame[t].posts = 0
            /\ frame[t].replies = <<>>

C3_Witness ==
    \E t \in Threads :
        /\ Returned(t)
        /\ frame[t].op = "improve_image_prompt"
        /\ frame[t].original_prompt = <<" ", "\n">>
        /\ frame[t].posts = 0

\* C4: whatever the endpoint did, a prompt operation returns a plain string.
C4_AlwaysString == \A t \in Threads : Returned(t) => IsStr(frame[t].ret)


\* The band of a percentage, by its range
BandOf(pct) ==
    IF pct \in 0 .. 30 THEN "subtle"
    ELSE IF pct \in 31 .. 60 THEN "moderate"
    ELSE IF pct \in 61 .. 80 THEN "strong"
    ELSE "maximum"

\* C5: for every percentage in 0..100, enhance_prompt and
\* improve_image_prompt select the band of its range: 0..30 subtle,
\* 31..60 moderate, 61..80 strong, 81..100 maximum.
C5_Bands ==
    \A t \in Threads :
        frame[t].pc = "build" /\ frame[t].op # "generate_alternative_prompt" =>
            /\ frame[t].enhancement_percentage \in 0 .. 100
            /\ frame[t].enhancement_level = BandOf(frame[t].enhancement_percentage)

C5_Witness ==
    \E t \in Threads :
        /\ frame[t].pc = "build"
        /\ frame[t].op = "enhance_prompt"
        /\ frame[t].enhancement_percentage = 30
        /\ frame[t].enhancement_level = "subtle"

\* The first attempt was answered with a body whose first choice's message
\* content is the text " X Y\n"
FirstAttemptContent(f) ==
    /\ f.pc = "returned"
    /\ f.replies = <<"body">>
    /\ f.result.ty = "dict"
    /\ DOMAIN f.result.v = { "choices" }
    /\ f.result.v["choices"].v # <<>>
    /\ "message" \in DOMAIN f.result.v["choices"].v[1].v
    /\ f.result.v["choices"].v[1].v["message"].v["content"].ty = "str"
    /\ f.result.v["choices"].v[1].v["message"].v["content"].v = <<" ", "X", " ", "Y", "\n">>

\* C6: when the first attempt is answered with a body whose
\* choices[0].message.content is a text, the operation returns that text
\* without its surrounding whitespace, after exactly one dispatch.
C6_ContentTrimmed ==
    \A t \in Threads : FirstAttemptContent(frame[t]) =>
        /\ IsStr(frame[t].ret)
        /\ frame[t].ret.v = <<"X", " ", "Y">>
        /\ frame[t].posts = 1

C6_Witness ==
    \E t \in Threads :
        /\ FirstAttemptContent(frame[t])
        /\ frame[t].op = "generate_alternative_prompt"

\* The call ended with a delivered body that has neither `choices` nor `error`
BodyWithoutChoices(f) ==
    /\ f.pc = "returned"
    /\ f.replies # <<>>
    /\ f.replies[Len(f.replies)] = "body"
    /\ f.result.ty = "dict"
    /\ "choices" \notin DOMAIN f.result.v
    /\ "error" \notin DOMAIN f.result.v

\* C7: a delivered body without `choices` (and without `error`) makes the
\* operation return the parse-error string, and the attempt that delivered
\* it is the call's last: no backoff follows it and nothing is sent again.
C7_MissingChoices ==
    \A t \in Threads : BodyWithoutChoices(frame[t]) =>
        /\ IsStr(frame[t].ret)
        /\ frame[t].ret.v = <<"Error parsing ChatGPT response: ", "'", "choices", "'">>
        /\ frame[t].posts = Len(frame[t].replies)
        /\ Len(Backoffs(frame[t])) = frame[t].posts - 1

C7_Witness ==
    \E t \in Threads :
        /\ BodyWithoutChoices(frame[t])
        /\ frame[t].op = "improve_image_prompt"

\* The executor's result carries an `error` member
ErrorResultReturned(f) ==
    /\ f.pc = "returned"
    /\ f.posts > 0
    /\ f.result.ty = "dict"
    /\ "error" \in DOMAIN f.result.v

\* C8: when the executor's result carries `error`, the operation returns
\* exactly that member's value.
C8_ErrorVerbatim ==
    \A t \in Threads : ErrorResultReturned(frame[t]) =>
        /\ frame[t].ret.ty = frame[t].result.v["error"].ty
        /\ frame[t].ret = frame[t].result.v["error"]

C8_Witness ==
    \E t \in Threads :
        /\ ErrorResultReturned(frame[t])
        /\ frame[t].replies = <<"failure", "failure", "failure">>
        /\ frame[t].ret.v = <<"Error connecting to ChatGPT API: ", "HTTPError">>

\* The credential source is missing, unreadable, or empty after trimming
BadSource(f) == f.kind \in { "missing", "unreadable" } \/ OnlyWhitespace(f.text)

Trimmed(text) ==
    text # <<>> /\ text[1] \notin { " ", "\n" } /\ text[Len(text)] \notin { " ", "\n" }

CredentialOk ==
    /\ client # "none" => (client = "failed" <=> BadSource(file))
    /\ client = "ok" => Trimmed(api_key)
    /\ \A t \in Threads : frame[t].pc # "idle" => client = "ok"

\* C9: construction fails exactly when the credential source is missing,
\* unreadable or empty after trimming; an operation runs only on a client
\* whose credential is non-empty and trimmed; and once the client exists
\* its credential never changes.
C9_Credential ==
    /\ []CredentialOk
    /\ [][client = "ok" => client' = "ok" /\ api_key' = api_key]_vars

C9_Witness ==
    /\ client = "failed"
    /\ file.kind = "text"
    /\ file.text = <<" ", "\n">>

Close(a, b) == b.at < a.stamp + 2

\* C10: with two caller threads, two consecutive dispatches are closer than
\* the minimum interval only when they come from different threads and the
\* later sender had read last_request_time before the other overwrote it.
C10_OnlyByRace ==
    Len(sent) = 2 /\ Close(sent[1], sent[2]) =>
        /\ sent[1].by # sent[2].by
        /\ sent[2].stale

\* Two threads that both passed the pacing check without sleeping and sent
\* at the same instant
C10_Witness ==
    /\ Len(sent) = 2
    /\ sent[1].by # sent[2].by
    /\ sent[1].paced = 0 /\ sent[2].paced = 0
    /\ sent[1].stale /\ sent[2].stale
    /\ sent[2].at - sent[1].at < 2
    /\ sent[2].stamp - sent[1].stamp < 2
    /\ sent[1].stamp - sent[2].stamp < 2

\* The positions inside _make_api_request
InExecutor(f) ==
    f.pc \in { "rl_now", "rl_check", "rl_sleep", "rl_stamp", "post", "await", "backoff" }

\* _make_api_request has returned, to an operation or to a direct caller
ExecutorReturned(f) ==
    \/ f.pc = "executor_returned"
    \/ f.pc = "returned" /\ ~OnlyWhitespace(f.original_prompt)

\* {"error": <a string>}
IsErrorResult(result) ==
    /\ result.ty = "dict"
    /\ DOMAIN result.v = { "error" }
    /\ result.v["error"].ty = "str"

\* The last entry of a call's log
LastOf(log) == log[Len(log)]

\* A call with max_retries = 3 never sends a fourth request, and when it has
\* returned, its result is an error result or the body its last attempt
\* received.
AtMostThree ==
    \A t \in Threads : frame[t].max_retries = 3 =>
        /\ frame[t].posts <= 3
        /\ frame[t].stamps <= 3
        /\ frame[t].attempt <= 2
        /\ ExecutorReturned(frame[t]) =>
              /\ frame[t].posts >= 1
              /\ \/ IsErrorResult(frame[t].result)
                 \/ /\ LastOf(frame[t].replies) = "body"
                    /\ frame[t].result \in Bodies

\* C11: every call of _make_api_request with the default ceiling returns,
\* whatever the endpoint does, after at most 3 dispatches, with the parsed
\* body or with an error result; it never starts a fourth attempt.
C11_Terminates ==
    /\ []AtMostThree
    /\ \A t \in Threads :
          (InExecutor(frame[t]) /\ frame[t].max_retries = 3)
              ~> ExecutorReturned(frame[t])

\* A call that returned after three dispatches that failed in different ways
C11_Witness ==
    \E t \in Threads :
        /\ ExecutorReturned(frame[t])
        /\ frame[t].max_retries = 3
        /\ frame[t].posts = 3
        /\ frame[t].replies = <<"failure", "429", "failure">>

\* min(60, 5 * 2^a), tabulated
WaitAt(a) ==
    CASE a = 0 -> 5 [] a = 1 -> 10 [] a = 2 -> 20 [] a = 3 -> 40 [] OTHER -> 60

RateLimitedMessage(a) ==
    <<"Rate limited. Please wait ", ToString(WaitAt(a)), " seconds and try again.">>

\* The thread's request is answered in this step, and the answer is of kind k
Answered(t, k) ==
    /\ frame[t].pc = "await"
    /\ frame'[t].pc # "await"
    /\ LastOf(frame'[t].replies) = k

\* What a 429 at attempt index a = frame[t].attempt leads to
On429(t) ==
    LET a == frame[t].attempt
    IN  IF a # frame[t].max_retries - 1
        THEN /\ frame'[t].pc = "backoff"
             /\ frame'[t].attempt = a
             /\ frame'[t].wake = clock + WaitAt(a)
             /\ frame'[t].sleeps = Append(frame[t].sleeps, [why |-> "429", d |-> WaitAt(a)])
        ELSE /\ ExecutorReturned(frame'[t])
             /\ frame'[t].sleeps = frame[t].sleeps
             /\ frame'[t].result =
                   [ty |-> "dict", v |-> [error |-> [ty |-> "str", v |-> RateLimitedMessage(a)]]]

\* A backoff ends no earlier than its wake-up time, and with the next attempt
AfterBackoff(t) ==
    frame[t].pc = "backoff" /\ frame'[t].pc # "backoff" =>
        /\ clock >= frame[t].wake
        /\ frame'[t].pc = "rl_now"
        /\ frame'[t].attempt = frame[t].attempt + 1
        /\ frame'[t].posts = frame[t].posts

\* C12: a 429 at attempt index a makes the executor sleep min(60, 5 * 2^a)
\* and then start attempt a + 1 when a is not the last attempt; at the last
\* attempt it returns, without sleeping, the error result whose message
\* names that wait.
C12_On429 ==
    [][\A t \in Threads :
          /\ Answered(t, "429") => On429(t)
          /\ AfterBackoff(t)]_vars

\* Six 429 replies to a call with max_retries = 6: the waits 5, 10, 20, 40
\* and the capped 60 were slept, the sixth is named
C12_Witness ==
    \E t \in Threads :
        /\ frame[t].pc = "executor_returned"
        /\ frame[t].max_retries = 6
        /\ frame[t].replies = <<"429", "429", "429", "429", "429", "429">>
        /\ frame[t].sleeps # <<>>
        /\ LastOf(frame[t].sleeps) = [why |-> "429", d |-> 60]
        /\ frame[t].result.v["error"].v =
              <<"Rate limited. Please wait ", "60", " seconds and try again.">>

\* 2^a, tabulated
DelayAt(a) ==
    CASE a = 0 -> 1 [] a = 1 -> 2 [] a = 2 -> 4 [] a = 3 -> 8 [] a = 4 -> 16
      [] a = 5 -> 32 [] a = 6 -> 64

\* The attempt ended with a connection error, a timeout or a status of 400
\* or more other than 429
TransportFailure(e) ==
    \/ e.raised \in { "ConnectionError", "Timeout" }
    \/ e.raised = "" /\ e.status_code >= 400 /\ e.status_code # 429

\* The thread's attempt ends in this step
AttemptEnds(t) == frame[t].pc = "await" /\ frame'[t].pc # "await"

\* What a transport failure at attempt index a = frame[t].attempt leads to
OnTransportFailure(t) ==
    LET a == frame[t].attempt
    IN  IF a # frame[t].max_retries - 1
        THEN /\ frame'[t].pc = "backoff"
             /\ frame'[t].attempt = a
             /\ frame'[t].wake = clock + DelayAt(a)
             /\ frame'[t].sleeps = Append(frame[t].sleeps, [why |-> "retry", d |-> DelayAt(a)])
        ELSE /\ ExecutorReturned(frame'[t])
             /\ frame'[t].sleeps = frame[t].sleeps
             /\ IsErrorResult(frame'[t].result)
             /\ frame'[t].result.v["error"].v[1] = "Error connecting to ChatGPT API: "

\* C13: a connection error, a timeout or a non-2xx status other than 429 at
\* attempt index a makes the executor sleep 2^a and then start attempt
\* a + 1 when a is not the last attempt; at the last attempt it returns,
\* without sleeping, the "Error connecting to ChatGPT API: ..." result.
C13_OnTransportFailure ==
    [][\A t \in Threads :
          /\ AttemptEnds(t) /\ TransportFailure(frame'[t].ending) => OnTransportFailure(t)
          /\ AfterBackoff(t)]_vars

\* Four failed attempts of a call with max_retries = 4, the last one with
\* status 500: the delays 1, 2 and 4 were slept and the call returned the
\* connection-error result
C13_Witness ==
    \E t \in Threads :
        /\ ExecutorReturned(frame[t])
        /\ frame[t].max_retries = 4
        /\ frame[t].posts = 4
        /\ frame[t].ending.status_code = 500
        /\ frame[t].sleeps = << [why |-> "retry", d |-> 1], [why |-> "retry", d |-> 2],
                                [why |-> "retry", d |-> 4] >>
        /\ frame[t].result.v["error"].v = <<"Error connecting to ChatGPT API: ", "HTTPError">>

\* The attempt ended with an exception that is not a RequestException:
\* requests.post raised a TypeError, or response.json() a plain ValueError
UnexpectedFailure(e) == e.raised = "TypeError" \/ e.json_raised = "ValueError"

Dispatches(t) == frame'[t].posts = frame[t].posts + 1

\* The thread records a timestamp in this step
Stamps(t) == frame'[t].stamps = frame[t].stamps + 1

\* Between recording the timestamp and sending the request a call has one
\* more timestamp than dispatches; everywhere else it has as many
StampsMatchPosts ==
    \A t \in Threads :
        IF frame[t].pc = "post"
        THEN frame[t].stamps = frame[t].posts + 1
        ELSE frame[t].stamps = frame[t].posts

\* C15: every dispatch, of a first attempt or of a retry, directly follows
\* the limiter's recording of a new last_request_time in the same attempt;
\* a call has recorded as many timestamps as it has sent requests; and
\* last_request_time never decreases.
C15_LimiterEachAttempt ==
    /\ []StampsMatchPosts
    /\ [][/\ last_request_time' >= last_request_time
          /\ \A t \in Threads :
                /\ Dispatches(t) =>
                      /\ frame[t].pc = "post"
                      /\ frame[t].stamps = frame[t].attempt + 1
                      /\ frame[t].stamp = last_request_time
                /\ Stamps(t) =>
                      /\ frame[t].stamps = frame[t].attempt
                      /\ last_request_time' = clock
                      /\ last_request_time' > last_request_time
                      /\ frame'[t].pc = "post"]_vars

\* The second retry of a call has just been sent: three timestamps, three
\* dispatches, the last timestamp later than the one before
C15_Witness ==
    \E t \in Threads :
        /\ frame[t].pc = "await"
        /\ frame[t].attempt = 2
        /\ frame[t].posts = 3
        /\ frame[t].stamps = 3
        /\ Len(sent) = 2
        /\ sent[2].stamp = last_request_time
        /\ sent[2].stamp > sent[1].stamp

\* {"error": "Max retries exceeded"}
IsMaxRetriesExceeded(result) ==
    result = [ty |-> "dict", v |-> [error |-> [ty |-> "str", v |-> <<"Max retries exceeded">>]]]

\* C16: a call of the executor returns "Max retries exceeded" exactly when
\* max_retries <= 0, and then it has sent nothing, recorded no timestamp and
\* not slept; with max_retries >= 1 every call returns from inside the loop,
\* after at least one and at most max_retries dispatches.
C16_MaxRetriesOnlyWithoutAttempts ==
    \A t \in Threads : ExecutorReturned(frame[t]) =>
        /\ IsMaxRetriesExceeded(frame[t].result) <=> frame[t].max_retries <= 0
        /\ frame[t].max_retries <= 0 =>
              /\ frame[t].posts = 0
              /\ frame[t].stamps = 0
              /\ frame[t].sleeps = <<>>
        /\ frame[t].max_retries >= 1 =>
              /\ frame[t].posts >= 1
              /\ frame[t].posts <= frame[t].max_retries
              /\ frame[t].attempt < frame[t].max_retries

\* A direct call with max_retries = 0 has returned "Max retries exceeded"
\* without a dispatch
C16_Witness ==
    \E t \in Threads :
        /\ frame[t].pc = "executor_returned"
        /\ frame[t].max_retries = 0
        /\ frame[t].posts = 0
        /\ frame[t].result.v["error"].v = <<"Max retries exceeded">>

\* The backoff that followed the attempt with index a, by what the attempt
\* was answered with
BackoffAt(kind, a) ==
    IF kind = "429" THEN [why |-> "429", d |-> WaitAt(a)]
    ELSE [why |-> "retry", d |-> DelayAt(a)]

\* C17: in a call with the default ceiling, 429 replies and transport
\* failures are counted by one attempt index: whatever their order, at most
\* 3 requests are sent, the backoff after the attempt with index a is
\* min(60, 5 * 2^a) after a 429 and 2^a after a transport failure, and when
\* the third attempt fails the result names the third attempt's kind of
\* failure only.
C17_SharedCounter ==
    \A t \in Threads : frame[t].max_retries = 3 =>
        LET f == frame[t]
            b == Backoffs(f)
        IN  /\ f.posts <= 3
            /\ Len(b) <= 2
            /\ Len(b) <= Len(f.replies)
            /\ \A i \in DOMAIN b : b[i] = BackoffAt(f.replies[i], i - 1)
            /\ ExecutorReturned(f) /\ f.posts = 3 /\ LastOf(f.replies) = "429" =>
                   f.result.v["error"].v = RateLimitedMessage(2)
            /\ ExecutorReturned(f) /\ f.posts = 3 /\ TransportFailure(f.ending) =>
                   f.result.v["error"].v[1] = "Error connecting to ChatGPT API: "

\* A 429, then a connection error, then a 429: the waits were 5 and 2, and
\* the result is the rate-limit message of the third attempt
C17_Witness ==
    \E t \in Threads :
        /\ ExecutorReturned(frame[t])
        /\ frame[t].max_retries = 3
        /\ frame[t].replies = <<"429", "failure", "429">>
        /\ frame[t].sleeps = << [why |-> "429", d |-> 5], [why |-> "retry", d |-> 2] >>
        /\ frame[t].result.v["error"].v =
              <<"Rate limited. Please wait ", "20", " seconds and try again.">>

\* A prompt operation called with an empty or whitespace-only prompt
BlankCall(f) == f.pc # "idle" /\ f.op \in Ops /\ OnlyWhitespace(f.original_prompt)

\* C18: from the step that calls a prompt operation with a blank prompt to
\* the step in which the caller takes the guidance string, the call changes
\* neither last_request_time nor what has been sent, and it ends without a
\* timestamp or a dispatch of its own.
C18_BlankLeavesThrottle ==
    [][\A t \in Threads :
          /\ BlankCall(frame[t]) \/ BlankCall(frame'[t]) =>
                /\ last_request_time' = last_request_time
                /\ sent' = sent
          /\ BlankCall(frame[t]) =>
                /\ frame[t].pc = "returned"
                /\ frame[t].stamps = 0
                /\ frame[t].posts = 0
                /\ frame'[t] = frame[t] \/ frame'[t] = IdleFrame]_vars

\* A blank call has returned after an earlier call's dispatch: the
\* timestamp of that dispatch is still the recorded one
C18_Witness ==
    \E t \in Threads :
        /\ BlankCall(frame[t])
        /\ frame[t].pc = "returned"
        /\ sent # <<>>
        /\ last_request_time = LastOf(sent).stamp
        /\ last_request_time > 0

============================================================================
